---------------------------- MODULE Spec2Model ----------------------------
(***************************************************************************)
(* Quasi-static r-z plasma wakefield solver (Baxevanis & Stupakov model):  *)
(* the xi-stepping driver calculate_wakefields, the RK4 integrator         *)
(* evolve_plasma, and the field solver of                                  *)
(* wake_t/physics_models/plasma_wakefields/qs_rz_baxevanis/solver.py.      *)
(*                                                                         *)
(* Numbers.  The program computes in float64.  Here a real x is the        *)
(* integer x * Scale (fixed point, resolution 1/Scale), products and       *)
(* quotients are rounded down to that resolution, and np.log / np.exp are  *)
(* computed by range reduction and a series to the same resolution.  As a  *)
(* float64 has a largest finite value, so have these numbers: a product or *)
(* quotient beyond MaxFloat is MaxFloat (with its sign).                   *)
(* Arrays are sequences: Python's index i is index i + 1 here, r[-1] is    *)
(* r[Len(r)], mesh column -1 - step is slice n_xi - step.                  *)
(***************************************************************************)
EXTENDS Integers, Sequences, FiniteSets, TLC

\* Resolution of the fixed-point numbers: 1.0 is Scale.
Scale == 1000

\* The value of a variable that is not set.
None == "None"

\* laser or beam_part being None: a record of the same shape, absent.
IsNone(x) == ~ x.present

----------------------------------------------------------------------------
(* Arithmetic on fixed-point numbers.                                      *)

Abs(x) == IF x < 0 THEN -x ELSE x

\* floor(a / b) for any b # 0.
FloorDiv(a, b) == IF b < 0 THEN (-a) \div (-b) ELSE a \div b

\* The largest magnitude of a number: 1000.0.
MaxFloat == 1000000

Clamp(x) == IF x > MaxFloat THEN MaxFloat ELSE IF x < - MaxFloat THEN - MaxFloat ELSE x

\* floor(a * b / Scale), without forming the double-width product.
MulExact(a, b) == (a \div Scale) * b + ((a % Scale) * b) \div Scale

\* a * b
Mul(a, b) == Clamp(MulExact(Clamp(a), Clamp(b)))

\* a / b for b > 0, without forming a * Scale.
DivPos(a, b) == (a \div b) * Scale + ((a % b) * Scale) \div b

\* a / b.  A division by zero raises ZeroDivisionError in the compiled
\* (njit) functions: each of them reports it in the field raised of what it
\* returns, and the value given here for b = 0 is then never used.
Div(a, b) ==
    IF b = 0 THEN 0
    ELSE IF b < 0 THEN Clamp(DivPos(- Clamp(a), - Clamp(b)))
    ELSE Clamp(DivPos(Clamp(a), Clamp(b)))

Sq(a) == Mul(a, a)

Half(a) == a \div 2

Quarter(a) == a \div 4

\* A real constant num/den.
Real(num, den) == (num * Scale) \div den

Ln2 == Real(693147, 1000000)

\* log(m) for 1 <= m < 2 and z = (m - 1) / (m + 1):
\* 2 (z + z^3/3 + z^5/5 + z^7/7).
LnSeries(z) ==
    LET z2 == Sq(z)
        z3 == Mul(z2, z)
        z5 == Mul(z3, z2)
        z7 == Mul(z5, z2)
    IN  2 * (z + z3 \div 3 + z5 \div 5 + z7 \div 7)

\* np.log(x) for x > 0: x = m * 2^k with 1 <= m < 2.
RECURSIVE LnReduce(_, _)
LnReduce(x, k) ==
    IF x >= 2 * Scale THEN LnReduce(x \div 2, k + 1)
    ELSE IF x < Scale THEN LnReduce(2 * x, k - 1)
    ELSE k * Ln2 + LnSeries(Div(x - Scale, x + Scale))

\* np.log(x); x = 0 is followed by a division by x, see Div.
Ln(x) == IF x <= 0 THEN 0 ELSE LnReduce(x, 0)

\* np.exp(-x) for x >= 0: exp(-x) = exp(-x/2)^2 down to x <= 1/2, then the
\* series 1 - x + x^2/2 - x^3/6 + x^4/24.
RECURSIVE ExpNeg(_)
ExpNeg(x) ==
    IF x > 16 * Scale THEN 0
    ELSE IF 2 * x > Scale THEN Sq(ExpNeg(x \div 2))
    ELSE LET x2 == Sq(x)
             x3 == Mul(x2, x)
             x4 == Mul(x3, x)
         IN  Scale - x + x2 \div 2 - x3 \div 6 + x4 \div 24

----------------------------------------------------------------------------
(* Arrays.                                                                 *)

\* The array a as a sequence of its values.
Array(a) == a \o <<>>

Zeros(n) == [i \in 1..n |-> 0]

Ones(n) == [i \in 1..n |-> Scale]

\* np.linspace(start, stop, n)
Linspace(start, stop, n) ==
    [k \in 1..n |-> IF n = 1 THEN start
                    ELSE start + ((k - 1) * (stop - start)) \div (n - 1)]

\* a[idx_keep]: the entries of a whose index is in keep, in order.
RECURSIVE Take(_, _, _)
Take(a, keep, i) ==
    IF i > Len(a) THEN <<>>
    ELSE IF i \in keep THEN <<a[i]>> \o Take(a, keep, i + 1)
    ELSE Take(a, keep, i + 1)

\* np.argsort(r): idx[k] is the index of the k-th smallest entry, entries of
\* equal value in index order.
Rank(r, i) ==
    1 + Cardinality({j \in 1..Len(r) : r[j] < r[i] \/ (r[j] = r[i] /\ j < i)})

ArgSort(r) == [k \in 1..Len(r) |-> CHOOSE i \in 1..Len(r) : Rank(r, i) = k]


----------------------------------------------------------------------------
(* Field solver at the plasma particles.                                   *)

\* The value subtracted from psi: the raw formula at r_N (lines 465-466 and
\* 516-517, 559).
PsiCalibration(r, sum_1, sum_2) ==
    LET r_N == r[Len(r)]
    IN  Mul(sum_1, Ln(r_N)) - sum_2 - Quarter(Sq(r_N))

\* One pass of the first loop of calculate_psi_and_derivatives_at_particles,
\* for the particle i of radius r_i, charge q_i and ln_r_i = np.log(r_i); st
\* holds sum_1, sum_2, psi and dr_psi, and raised.
PsiAtParticlesStep(i, r_i, q_i, ln_r_i, st) ==
    LET sum_1_new == st.sum_1 + q_i
        sum_2_new == st.sum_2 + Mul(q_i, ln_r_i)
        sum_1_avg == Half(st.sum_1 + sum_1_new)
        sum_2_avg == Half(st.sum_2 + sum_2_new)
    IN  [raised |-> st.raised \/ r_i = 0,
         sum_1  |-> sum_1_new,
         sum_2  |-> sum_2_new,
         psi    |-> [st.psi EXCEPT ![i] =
                        Mul(sum_1_avg, ln_r_i) - sum_2_avg - Quarter(Sq(r_i))],
         dr_psi |-> [st.dr_psi EXCEPT ![i] = Div(sum_1_avg, r_i) - Half(r_i)]]

\* The first loop, from sorted position i_sort on.
RECURSIVE PsiAtParticlesLoop(_, _, _, _, _)
PsiAtParticlesLoop(i_sort, r, q, idx, st) ==
    IF i_sort > Len(r) THEN st
    ELSE PsiAtParticlesLoop(i_sort + 1, r, q, idx,
             PsiAtParticlesStep(idx[i_sort], r[idx[i_sort]], q[idx[i_sort]],
                                Ln(r[idx[i_sort]]), st))

\* One pass of the second loop of
\* calculate_psi_and_derivatives_at_particles, for the particle i and
\* sum_3_new = sum_3 + (q_i * pr_i) / (r_i * (1 + psi_i)), of divisor den; st
\* holds sum_3 and dxi_psi, and raised.
DxiPsiAtParticlesStep(i, den, sum_3_new, st) ==
    [raised  |-> st.raised \/ den = 0,
     sum_3   |-> sum_3_new,
     dxi_psi |-> [st.dxi_psi EXCEPT ![i] = -Half(st.sum_3 + sum_3_new)]]

\* The second loop, from sorted position i_sort on.
RECURSIVE DxiPsiAtParticlesLoop(_, _, _, _, _, _, _)
DxiPsiAtParticlesLoop(i_sort, r, pr, q, psi, idx, st) ==
    IF i_sort > Len(r) THEN st
    ELSE DxiPsiAtParticlesLoop(i_sort + 1, r, pr, q, psi, idx,
             DxiPsiAtParticlesStep(
                 idx[i_sort],
                 Mul(r[idx[i_sort]], Scale + psi[idx[i_sort]]),
                 st.sum_3 + Div(Mul(q[idx[i_sort]], pr[idx[i_sort]]),
                                Mul(r[idx[i_sort]], Scale + psi[idx[i_sort]])),
                 st))

\* What calculate_psi_and_derivatives_at_particles returns, from the sorted
\* order idx, the result s1 of its first loop, the calibrated psi and the
\* result s2 of its second loop.
PsiAtParticlesResult(s1, psi, s2) ==
    [raised  |-> s1.raised \/ s2.raised,
     psi     |-> psi,
     dr_psi  |-> s1.dr_psi,
     dxi_psi |-> [i \in 1..Len(psi) |-> s2.dxi_psi[i] + s2.sum_3]]

PsiAtParticlesSecond(r, pr, q, idx, s1, psi) ==
    PsiAtParticlesResult(s1, psi,
        DxiPsiAtParticlesLoop(1, r, pr, q, psi, idx,
            [raised |-> FALSE, sum_3 |-> 0, dxi_psi |-> Zeros(Len(r))]))

PsiAtParticlesCalibrate(r, pr, q, idx, s1, cal) ==
    PsiAtParticlesSecond(r, pr, q, idx, s1,
        Array([i \in 1..Len(r) |-> s1.psi[i] - cal]))

PsiAtParticlesFirst(r, pr, q, idx, s1) ==
    PsiAtParticlesCalibrate(r, pr, q, idx, s1,
        PsiCalibration(r, s1.sum_1, s1.sum_2))

PsiAtParticlesSorted(r, pr, q, idx) ==
    PsiAtParticlesFirst(r, pr, q, idx,
        PsiAtParticlesLoop(1, r, q, idx,
            [raised |-> FALSE, sum_1 |-> 0, sum_2 |-> 0,
             psi |-> Zeros(Len(r)), dr_psi |-> Zeros(Len(r))]))

calculate_psi_and_derivatives_at_particles(r, pr, q) ==
    PsiAtParticlesSorted(r, pr, q, Array(ArgSort(r)))

----------------------------------------------------------------------------
(* Recursion coefficients of b_theta.                                      *)

\* The coefficients A_i, B_i, C_i of one particle (lines 736-750), with
\* a = 1 + psi_i, and whether a divisor is zero.
AiBiCoefficients(r_i, pr_i, q_i, gamma_i, dr_psi_i, dxi_psi_i, b_theta_0_i, nabla_a_i, a) ==
    LET a2    == Mul(a, a)
        a3    == Mul(a2, a)
        b     == Div(Scale, Mul(r_i, a))
        c     == Div(Scale, Mul(r_i, a2))
        pr_i2 == Mul(pr_i, pr_i)
    IN  [A |-> Mul(q_i, b),
         B |-> Mul(q_i, - Mul(Mul(gamma_i, dr_psi_i), c)
                        + Div(Mul(pr_i2, dr_psi_i), Mul(r_i, a3))
                        + Mul(Mul(pr_i, dxi_psi_i), c)
                        + Div(pr_i2, Mul(Mul(r_i, r_i), a2))
                        + Mul(b_theta_0_i, b)
                        + Half(Mul(nabla_a_i, c))),
         C |-> Mul(q_i, Mul(pr_i2, c) - Div(Div(gamma_i, a) - Scale, r_i)),
         raised |-> 0 \in {r_i, a, Mul(r_i, a), Mul(r_i, a2), Mul(r_i, a3),
                           Mul(Mul(r_i, r_i), a2)}]

\* One pass of the loop of calculate_ai_bi (lines 752-771), for the particle
\* i of radius r_i and coefficients co; st holds the arrays K, U, T, P and
\* K_im1, U_im1, T_im1, P_im1, and raised.
AiBiStep(i, r_i, co, st) ==
    LET l_i  == Scale + Half(Mul(co.A, r_i))
        m_i  == Div(Half(co.A), r_i)
        n_i  == -Half(Mul(co.A, Mul(Sq(r_i), r_i)))
        o_i  == Scale - Half(Mul(co.A, r_i))
        K_i  == Mul(l_i, st.K_im1) + Mul(m_i, st.U_im1)
        U_i  == Mul(n_i, st.K_im1) + Mul(o_i, st.U_im1)
        T_i  == Mul(l_i, st.T_im1) + Mul(m_i, st.P_im1)
                + Half(co.B) + Quarter(Mul(co.A, co.C))
        P_i  == Mul(n_i, st.T_im1) + Mul(o_i, st.P_im1)
                + Mul(r_i, co.C - Half(Mul(co.B, r_i))
                           - Quarter(Mul(Mul(co.A, co.C), r_i)))
    IN  [raised |-> st.raised \/ co.raised,
         K |-> [st.K EXCEPT ![i] = K_i],
         U |-> [st.U EXCEPT ![i] = U_i],
         T |-> [st.T EXCEPT ![i] = T_i],
         P |-> [st.P EXCEPT ![i] = P_i],
         K_im1 |-> K_i, U_im1 |-> U_i, T_im1 |-> T_i, P_im1 |-> P_i]

\* The loop of calculate_ai_bi over the particle p of sorted position
\* i_sort and those after it; c holds the arguments of calculate_ai_bi.
AiBiParticle(c, p, st) ==
    AiBiStep(p, c.r[p],
             AiBiCoefficients(c.r[p], c.pr[p], c.q[p], c.gamma[p], c.dr_psi[p],
                              c.dxi_psi[p], c.b_theta_0[p], c.nabla_a[p],
                              Scale + c.psi[p]),
             st)

RECURSIVE AiBiLoop(_, _, _)
AiBiLoop(i_sort, c, st) ==
    IF i_sort > Len(c.r) THEN st
    ELSE AiBiLoop(i_sort + 1, c, AiBiParticle(c, c.idx[i_sort], st))

\* An a_0 of the wrong sign.
SolveA0Unsigned(T_im1, K_im1) == Div(T_im1, K_im1)

\* a_0 from the values the forward pass ends with (line 774).
SolveA0(T_im1, K_im1) == Div(- T_im1, K_im1)

\* What calculate_ai_bi returns (lines 776-779), from the sorted order idx,
\* the result st of the loop and a_0; K, U, T, P are kept for inspection.
AiBiResult(idx, st, a_0) ==
    [raised |-> st.raised \/ st.K_im1 = 0,
     a_i |-> Array([i \in 1..Len(idx) |-> Mul(st.K[i], a_0) + st.T[i]]),
     b_i |-> Array([i \in 1..Len(idx) |-> Mul(st.U[i], a_0) + st.P[i]]),
     a_0 |-> a_0,
     idx |-> idx,
     K |-> st.K, U |-> st.U, T |-> st.T, P |-> st.P]

AiBiSolve(idx, st) == AiBiResult(idx, st, SolveA0(st.T_im1, st.K_im1))

AiBiSorted(c) ==
    AiBiSolve(c.idx,
        AiBiLoop(1, c,
            [raised |-> FALSE,
             K |-> Zeros(Len(c.r)), U |-> Zeros(Len(c.r)),
             T |-> Zeros(Len(c.r)), P |-> Zeros(Len(c.r)),
             K_im1 |-> Scale, U_im1 |-> 0, T_im1 |-> 0, P_im1 |-> 0]))

calculate_ai_bi(r, pr, q, gamma, psi, dr_psi, dxi_psi, b_theta_0, nabla_a) ==
    AiBiSorted([r |-> r, pr |-> pr, q |-> q, gamma |-> gamma, psi |-> psi,
                dr_psi |-> dr_psi, dxi_psi |-> dxi_psi,
                b_theta_0 |-> b_theta_0, nabla_a |-> nabla_a,
                idx |-> Array(ArgSort(r))])

\* One pass of the loop of calculate_b_theta_at_particles, for the particle
\* i; st holds a_im1, b_im1, a_i_avg and b_i_avg.
BThetaAvgStep(i, a_i, b_i, st) ==
    [a_im1 |-> a_i[i], b_im1 |-> b_i[i],
     a_i_avg |-> [st.a_i_avg EXCEPT ![i] = Half(a_i[i] + st.a_im1)],
     b_i_avg |-> [st.b_i_avg EXCEPT ![i] = Half(b_i[i] + st.b_im1)]]

RECURSIVE BThetaAvgLoop(_, _, _, _, _)
BThetaAvgLoop(i_sort, a_i, b_i, idx, st) ==
    IF i_sort > Len(idx) THEN st
    ELSE BThetaAvgLoop(i_sort + 1, a_i, b_i, idx,
                       BThetaAvgStep(idx[i_sort], a_i, b_i, st))

\* What calculate_b_theta_at_particles returns (line 612), from the result
\* ab of calculate_ai_bi and the result st of the loop.
BThetaAtParticlesResult(r, ab, st) ==
    [raised |-> ab.raised \/ \E i \in 1..Len(r) : r[i] = 0,
     b_theta_bar |-> Array([i \in 1..Len(r) |->
                        Mul(st.a_i_avg[i], r[i]) + Div(st.b_i_avg[i], r[i])])]

BThetaAtParticlesAverage(r, ab) ==
    BThetaAtParticlesResult(r, ab,
        BThetaAvgLoop(1, ab.a_i, ab.b_i, ab.idx,
            [a_im1 |-> ab.a_0, b_im1 |-> 0,
             a_i_avg |-> Zeros(Len(r)), b_i_avg |-> Zeros(Len(r))]))

calculate_b_theta_at_particles(r, pr, q, gamma, psi, dr_psi, dxi_psi, b_theta_0, nabla_a) ==
    BThetaAtParticlesAverage(r,
        calculate_ai_bi(r, pr, q, gamma, psi, dr_psi, dxi_psi, b_theta_0,
                        nabla_a))

----------------------------------------------------------------------------
(* Field solver at the radial positions r_arr (probe mode).                *)

\* "Get index of last plasma particle with r_i < r_j": the inner loop of
\* lines 541-547 and 652-658, from sorted position i_sort on.  The result
\* is a sorted position, 0 where the code has -1.
RECURSIVE LastBelowLoop(_, _, _, _)
LastBelowLoop(i_sort, r, idx, r_j) ==
    IF r[idx[i_sort]] >= r_j THEN i_sort - 1
    ELSE IF i_sort = Len(r) THEN i_sort
    ELSE LastBelowLoop(i_sort + 1, r, idx, r_j)

\* A search that stops one shell early.
LastBelowEarly(r, idx, r_j) ==
    LET i_last == LastBelowLoop(1, r, idx, r_j)
    IN  IF i_last > 0 THEN i_last - 1 ELSE 0

LastBelow(r, idx, r_j) == LastBelowLoop(1, r, idx, r_j)

\* One pass of the first loop of calculate_psi_and_derivatives, for the
\* particle i of radius r_i, charge q_i and ln_r_i = np.log(r_i); st holds
\* sum_1, sum_2, sum_1_arr, sum_2_arr and psi_part.
PsiSumsStep(i, r_i, q_i, ln_r_i, st) ==
    LET sum_1 == st.sum_1 + q_i
        sum_2 == st.sum_2 + Mul(q_i, ln_r_i)
    IN  [sum_1 |-> sum_1,
         sum_2 |-> sum_2,
         sum_1_arr |-> [st.sum_1_arr EXCEPT ![i] = sum_1],
         sum_2_arr |-> [st.sum_2_arr EXCEPT ![i] = sum_2],
         psi_part  |-> [st.psi_part EXCEPT ![i] =
                           Mul(sum_1, ln_r_i) - sum_2 - Quarter(Sq(r_i))]]

RECURSIVE PsiSumsLoop(_, _, _, _, _)
PsiSumsLoop(i_sort, r, q, idx, st) ==
    IF i_sort > Len(r) THEN st
    ELSE PsiSumsLoop(i_sort + 1, r, q, idx,
             PsiSumsStep(idx[i_sort], r[idx[i_sort]], q[idx[i_sort]],
                         Ln(r[idx[i_sort]]), st))

\* One pass of the second loop of calculate_psi_and_derivatives, for the
\* particle i and the new sum_3, of divisor den; st holds sum_3, sum_3_arr,
\* and raised.
Sum3Step(i, den, sum_3, st) ==
    [raised |-> st.raised \/ den = 0,
     sum_3 |-> sum_3,
     sum_3_arr |-> [st.sum_3_arr EXCEPT ![i] = sum_3]]

RECURSIVE Sum3Loop(_, _, _, _, _, _, _)
Sum3Loop(i_sort, r, pr, q, psi_part, idx, st) ==
    IF i_sort > Len(r) THEN st
    ELSE Sum3Loop(i_sort + 1, r, pr, q, psi_part, idx,
             Sum3Step(idx[i_sort],
                      Mul(r[idx[i_sort]], Scale + psi_part[idx[i_sort]]),
                      st.sum_3 + Div(Mul(q[idx[i_sort]], pr[idx[i_sort]]),
                                     Mul(r[idx[i_sort]],
                                         Scale + psi_part[idx[i_sort]])),
                      st))

\* The fields at r_j before calibration, i_last being the sorted position
\* of the last particle below r_j (lines 549-558).
PsiProbe(r_j, ln_r_j, i_last, idx, s1, s2) ==
    IF i_last = 0
    THEN [psi |-> - Quarter(Sq(r_j)), dr_psi |-> - Half(r_j), dxi_psi |-> 0]
    ELSE [psi |-> Mul(s1.sum_1_arr[idx[i_last]], ln_r_j)
                  - s1.sum_2_arr[idx[i_last]] - Quarter(Sq(r_j)),
          dr_psi |-> Div(s1.sum_1_arr[idx[i_last]], r_j) - Half(r_j),
          dxi_psi |-> - s2.sum_3_arr[idx[i_last]]]

\* What calculate_psi_and_derivatives returns (lines 559-561), from the
\* fields raw before calibration, the constant cal and the result s2 of the
\* second loop.
PsiProbesResult(r_arr, raw, cal, s2) ==
    [raised  |-> s2.raised \/ \E j \in 1..Len(r_arr) : r_arr[j] = 0,
     psi     |-> Array([j \in 1..Len(r_arr) |-> raw[j].psi - cal]),
     dr_psi  |-> Array([j \in 1..Len(r_arr) |-> raw[j].dr_psi]),
     dxi_psi |-> Array([j \in 1..Len(r_arr) |-> raw[j].dxi_psi + s2.sum_3])]

PsiProbesSecond(r_arr, r, idx, s1, cal, s2) ==
    PsiProbesResult(r_arr,
        Array([j \in 1..Len(r_arr) |->
                  PsiProbe(r_arr[j], Ln(r_arr[j]), LastBelow(r, idx, r_arr[j]),
                           idx, s1, s2)]),
        cal, s2)

PsiProbesCalibrate(r_arr, r, pr, q, idx, s1, cal) ==
    PsiProbesSecond(r_arr, r, idx, s1, cal,
        Sum3Loop(1, r, pr, q,
                 Array([i \in 1..Len(r) |-> s1.psi_part[i] - cal]), idx,
                 [raised |-> FALSE, sum_3 |-> 0, sum_3_arr |-> Zeros(Len(r))]))

PsiProbesFirst(r_arr, r, pr, q, idx, s1) ==
    PsiProbesCalibrate(r_arr, r, pr, q, idx, s1,
        PsiCalibration(r, s1.sum_1, s1.sum_2))

PsiProbesSorted(r_arr, r, pr, q, idx) ==
    PsiProbesFirst(r_arr, r, pr, q, idx,
        PsiSumsLoop(1, r, q, idx,
            [sum_1 |-> 0, sum_2 |-> 0, sum_1_arr |-> Zeros(Len(r)),
             sum_2_arr |-> Zeros(Len(r)), psi_part |-> Zeros(Len(r))]))

calculate_psi_and_derivatives(r_arr, r, pr, q) ==
    PsiProbesSorted(r_arr, r, pr, q, Array(ArgSort(r)))

\* A probe that takes the axis solution at every radius.
BThetaProbeAxis(r_j, i_last, ab) == Mul(ab.a_0, r_j)

\* b_theta_bar at r_j (lines 660-665), i_last being the sorted position of
\* the last particle below r_j and ab the result of calculate_ai_bi.
BThetaProbe(r_j, i_last, ab) ==
    IF i_last = 0 THEN Mul(ab.a_0, r_j)
    ELSE Mul(ab.a_i[ab.idx[i_last]], r_j) + Div(ab.b_i[ab.idx[i_last]], r_j)

BThetaProbes(r_arr, r, ab) ==
    [raised |-> ab.raised \/ \E j \in 1..Len(r_arr) : r_arr[j] = 0,
     b_theta_mesh |->
        Array([j \in 1..Len(r_arr) |->
                  BThetaProbe(r_arr[j], LastBelow(r, ab.idx, r_arr[j]), ab)])]

calculate_b_theta(r_arr, r, pr, q, gamma, psi, dr_psi, dxi_psi, b_theta_0, nabla_a) ==
    BThetaProbes(r_arr, r,
        calculate_ai_bi(r, pr, q, gamma, psi, dr_psi, dxi_psi, b_theta_0,
                        nabla_a))

----------------------------------------------------------------------------
(* Source terms.  Lengths are in units of the plasma skin depth, so that   *)
(* s_d = 1 and the SI values xi_si, r_si are xi, r.                        *)

s_d == Real(1, 1)

Pi == Real(314159, 100000)

\* What get_nabla_a and get_a2 compute first.  The code takes square roots
\* (w_fac, s_r, s_z, avg_amplitude) and uses only their squares; the squares
\* are computed here: w_fac^2 = 1 + (dz_foc/z_r)^2, s_r^2 = w_0^2 w_fac^2 / 2,
\* s_z^2 = (tau c)^2 / (4 log 2), and avg_amplitude^2 = a_0^2 (/ 2 if linear).
LaserEnvelope(laser) ==
    LET z_r    == Div(Mul(Pi, Sq(laser.w_0)), laser.l_0)
        w_fac2 == Scale + Sq(Div(laser.z_foc, z_r))
        amp2   == IF laser.pol = "linear" THEN Half(Sq(laser.a_0))
                  ELSE Sq(laser.a_0)
    IN  [s_r2 |-> Half(Mul(Sq(laser.w_0), w_fac2)),
         s_z2 |-> Div(Sq(laser.ctau), 4 * Ln2),
         amp2 |-> Div(amp2, w_fac2)]

LaserProfile(xi, r, laser) ==
    LET e == LaserEnvelope(laser)
    IN  Mul(ExpNeg(Div(Sq(r), e.s_r2)), ExpNeg(Div(Sq(xi - laser.xi_c), e.s_z2)))

get_nabla_a(xi, r, laser) ==
    LET e == LaserEnvelope(laser)
    IN  Mul(Div(Mul(-2 * e.amp2, r), e.s_r2), LaserProfile(xi, r, laser))

get_a2(xi, r, laser) == Mul(LaserEnvelope(laser).amp2, LaserProfile(xi, r, laser))

\* nabla_a and a2 at the radii r (lines 256-261 and 397-402).
LaserSource(laser_params, xi, r) ==
    LET xi_si == Mul(xi, s_d)
        r_si  == [i \in 1..Len(r) |-> Mul(r[i], s_d)]
    IN  IF ~ IsNone(laser_params)
        THEN [nabla_a |-> Array([i \in 1..Len(r) |->
                             Mul(get_nabla_a(xi_si, r_si[i], laser_params), s_d)]),
              a2 |-> Array([i \in 1..Len(r) |->
                             get_a2(xi_si, r_si[i], laser_params)])]
        ELSE [nabla_a |-> Zeros(Len(r)), a2 |-> Zeros(Len(r))]

\* The interpolator get_beam_function returns, probe(r, xi) -> b_theta_0: the
\* azimuthal field of a beam of uniform density n_b and radius r_b between
\* xi_lo and xi_hi, -(1/r) * integral of n_b r dr (Eq. (18)).
BeamProbe(beam, r_j, xi) ==
    IF xi < beam.xi_lo \/ xi > beam.xi_hi THEN 0
    ELSE IF r_j <= beam.r_b THEN - Half(Mul(beam.n_b, r_j))
    ELSE - Div(Half(Mul(beam.n_b, Sq(beam.r_b))), r_j)

beam_source(beam, r, xi) ==
    Array([i \in 1..Len(r) |-> BeamProbe(beam, r[i], xi)])

----------------------------------------------------------------------------
(* Equations of motion and the Runge-Kutta step.                           *)

\* gamma of calculate_derivatives (lines 311-314).
GammaAtParticles(pr, a2, psi) ==
    [i \in 1..Len(pr) |->
        Div(Scale + Sq(pr[i]) + a2[i] + Sq(Scale + psi[i]), 2 * (Scale + psi[i]))]

\* dr and dpr (lines 320-328), from the result f of
\* calculate_psi_and_derivatives_at_particles, gamma and the result bt of
\* calculate_b_theta_at_particles.
DerivativesResult(dxi, pr, b_theta_0, nabla_a, f, gamma, bt) ==
    [raised |-> \/ f.raised
                \/ \E i \in 1..Len(pr) : Scale + f.psi[i] = 0
                \/ bt.raised,
     dr  |-> Array([i \in 1..Len(pr) |->
                Div(Mul(dxi, pr[i]), Scale + f.psi[i])]),
     dpr |-> Array([i \in 1..Len(pr) |->
                Mul(dxi, Div(Mul(gamma[i], f.dr_psi[i]), Scale + f.psi[i])
                         - bt.b_theta_bar[i]
                         - b_theta_0[i]
                         - Div(nabla_a[i], 2 * (Scale + f.psi[i])))])]

DerivativesWithGamma(dxi, r, pr, q, b_theta_0, nabla_a, f, gamma) ==
    DerivativesResult(dxi, pr, b_theta_0, nabla_a, f, gamma,
        calculate_b_theta_at_particles(r, pr, q, gamma, f.psi, f.dr_psi,
                                       f.dxi_psi, b_theta_0, nabla_a))

DerivativesWithPsi(dxi, r, pr, q, b_theta_0, nabla_a, a2, f) ==
    DerivativesWithGamma(dxi, r, pr, q, b_theta_0, nabla_a, f,
        Array(GammaAtParticles(pr, a2, f.psi)))

calculate_derivatives(dxi, r, pr, q, b_theta_0, nabla_a, a2) ==
    DerivativesWithPsi(dxi, r, pr, q, b_theta_0, nabla_a, a2,
        calculate_psi_and_derivatives_at_particles(r, pr, q))

\* A reflection that mirrors the radius and forgets the momentum.
ReflectRadiusOnly(r, pr) ==
    [r  |-> [i \in 1..Len(r) |-> IF r[i] < 0 THEN - r[i] ELSE r[i]],
     pr |-> pr]

\* r[idx_neg] *= -1 (and the same entries of pr), idx_neg = np.where(r < 0).
Reflect(r, pr) ==
    [r  |-> Array([i \in 1..Len(r) |-> IF r[i] < 0 THEN - r[i] ELSE r[i]]),
     pr |-> Array([i \in 1..Len(r) |-> IF r[i] < 0 THEN - pr[i] ELSE pr[i]])]

\* motion_derivatives with a beam source: the arrays it computes with (r, pr
\* or their reflected copies) and the derivatives it returns.
MotionDerivativesResult(loc, d) ==
    [raised |-> d.raised, r |-> loc.r, pr |-> loc.pr, dr |-> d.dr,
     dpr |-> d.dpr]

MotionDerivativesSources(dxi, xi, q, beam, loc, src) ==
    MotionDerivativesResult(loc,
        calculate_derivatives(dxi, loc.r, loc.pr, q,
                              beam_source(beam, loc.r, xi), src.nabla_a,
                              src.a2))

MotionDerivativesReflected(dxi, xi, q, laser_params, beam, loc) ==
    MotionDerivativesSources(dxi, xi, q, beam, loc,
                             LaserSource(laser_params, xi, loc.r))

motion_derivatives(dxi, xi, r, pr, q, laser_params, beam) ==
    MotionDerivativesReflected(dxi, xi, q, laser_params, beam, Reflect(r, pr))

\* x * inv_6 with inv_6 = 1. / 6.
TimesInv6(x) == FloorDiv(x, 6)

\* "Push particles" (lines 341-344).
PushParticles(r, pr, Ar, Br, Cr, Dr, Apr, Bpr, Cpr, Dpr) ==
    [r  |-> Array([i \in 1..Len(r) |->
               r[i] + TimesInv6(Ar[i] + 2 * (Br[i] + Cr[i]) + Dr[i])]),
     pr |-> Array([i \in 1..Len(r) |->
               pr[i] + TimesInv6(Apr[i] + 2 * (Bpr[i] + Cpr[i]) + Dpr[i])])]

update_particles_rk4(r, pr, Ar, Br, Cr, Dr, Apr, Bpr, Cpr, Dpr) ==
    LET pushed == PushParticles(r, pr, Ar, Br, Cr, Dr, Apr, Bpr, Cpr, Dpr)
    IN  Reflect(pushed.r, pushed.pr)

\* gamma of calculate_fields (line 407).
GammaInFields(pr, a2, psi) ==
    [i \in 1..Len(pr) |->
        Div(Scale + Sq(pr[i]) + Half(a2[i]) + Sq(Scale + psi[i]),
            2 * (Scale + psi[i]))]

\* What calculate_fields returns (line 414), from the result f of
\* calculate_psi_and_derivatives_at_particles, the result f_r of
\* calculate_psi_and_derivatives and the result b_theta_bar_r of
\* calculate_b_theta.
FieldsResult(r_arr, xi, beam, f, f_r, b_theta_bar_r) ==
    [raised |-> f.raised \/ f_r.raised \/ b_theta_bar_r.raised,
     psi |-> f_r.psi, dr_psi |-> f_r.dr_psi, dxi_psi |-> f_r.dxi_psi,
     b_theta_bar |-> b_theta_bar_r.b_theta_mesh,
     b_theta_0 |-> beam_source(beam, r_arr, xi)]

FieldsAtProbes(r_arr, xi, r, pr, q, beam, src, f, gamma) ==
    FieldsResult(r_arr, xi, beam, f,
        calculate_psi_and_derivatives(r_arr, r, pr, q),
        calculate_b_theta(r_arr, r, pr, q, gamma, f.psi, f.dr_psi, f.dxi_psi,
                          beam_source(beam, r, xi), src.nabla_a))

FieldsAtParticles(r_arr, xi, r, pr, q, beam, src, f) ==
    FieldsAtProbes(r_arr, xi, r, pr, q, beam, src, f,
                   Array(GammaInFields(pr, src.a2, f.psi)))

FieldsSources(r_arr, xi, r, pr, q, beam, src) ==
    FieldsAtParticles(r_arr, xi, r, pr, q, beam, src,
        calculate_psi_and_derivatives_at_particles(r, pr, q))

\* calculate_fields with a beam source.
calculate_fields(r_arr, xi, r, pr, q, laser_params, beam) ==
    FieldsSources(r_arr, xi, r, pr, q, beam, LaserSource(laser_params, xi, r))

----------------------------------------------------------------------------
(* The inputs of calculate_wakefields.                                     *)

\* Largest n_r, ppc and n_xi of a run.
MaxNr == 3
MaxPpc == 2
MaxNXi == 3

\* Margin of the simulation boundary, in skin depths (line 136).
Margin == Real(1, 10)

NoBeam == [present |-> FALSE, n_b |-> 0, r_b |-> 0, xi_lo |-> 0, xi_hi |-> 0]

NoLaser ==
    [present |-> FALSE, a_0 |-> 0, l_0 |-> 0, w_0 |-> 0, ctau |-> 0,
     xi_c |-> 0, pol |-> "linear", z_foc |-> 0]

Beam(n_b) ==
    [present |-> TRUE, n_b |-> n_b, r_b |-> Real(1, 2), xi_lo |-> Real(1, 4),
     xi_hi |-> Real(5, 4)]

\* Beam particle distributions (beam_part), None for no beam: a weak and a
\* strong electron beam, and a positively charged one.
Beams == {NoBeam, Beam(Real(30, 1)), Beam(Real(80, 1)), Beam(Real(-60, 1))}

\* Laser pulses (laser), None for no laser.
Lasers ==
    {NoLaser,
     [present |-> TRUE, a_0 |-> Real(2, 1), l_0 |-> Real(1, 10),
      w_0 |-> Real(1, 1), ctau |-> Real(1, 2), xi_c |-> Real(1, 2),
      pol |-> "linear", z_foc |-> 0]}

\* r_max, xi_min, xi_max in metres over the skin depth.
RMaxs == {Real(2, 1)}
XiMins == {0}
XiMaxs == {Real(1, 1)}

Inputs ==
    [laser : Lasers, beam_part : Beams, r_max : RMaxs, xi_min : XiMins,
     xi_max : XiMaxs, n_r : 1..MaxNr, n_xi : 1..MaxNXi, ppc : 1..MaxPpc]

VARIABLES
    in,          \* the arguments of calculate_wakefields
    pc,          \* where the call is
    step,        \* the loop variable of the main loop
    xi,          \* xi of the current step
    r, pr, gamma, q,   \* the plasma column
    rk,          \* Ar, Apr, ..., Dr, Dpr of evolve_plasma, as they are computed
    fields,      \* the tuple calculate_fields returned in this step
    mesh,        \* psi_mesh, dr_psi_mesh, dxi_psi_mesh, b_theta_bar_mesh, b_theta_0_mesh
    result,      \* what calculate_wakefields returns
    pid,         \* history: the creation index of each particle of the column
    exceeded,    \* history: the particles evolve_plasma returned beyond r_max + 0.1
    pre,         \* history: the last update_particles_rk4, before and after the reflection
    md,          \* history: arguments and local arrays of the last motion_derivatives
    calls,       \* history: the calls of the deposition collaborators and of calculate_fields
    writes       \* history: the mesh slices stored, with step and xi

vars == <<in, pc, step, xi, r, pr, gamma, q, rk, fields, mesh, result,
          pid, exceeded, pre, md, calls, writes>>

\* Lines 77-108.
r_max == Div(in.r_max, s_d)
xi_min == Div(in.xi_min, s_d)
xi_max == Div(in.xi_max, s_d)
dr == r_max \div in.n_r
dr_p == dr \div in.ppc
n_part == in.n_r * in.ppc
dxi == (xi_max - xi_min) \div in.n_xi
r_arr == Linspace(Half(dr), r_max - Half(dr), in.n_r)
xi_arr == Linspace(xi_min, xi_max, in.n_xi)
laser_params == in.laser
beam == in.beam_part

\* np.zeros((n_r, n_xi)): mesh[j][i] is cell i of xi-slice j.
ZeroMesh == [j \in 1..in.n_xi |-> Zeros(in.n_r)]

----------------------------------------------------------------------------
(* Derived fields: np.gradient(f, h, edge_order=2) on a uniform grid.      *)

\* One-dimensional gradient of the sequence f with spacing h (Len(f) >= 3).
Gradient1(f, h) ==
    LET n == Len(f)
    IN  [i \in 1..n |->
            IF i = 1 THEN Div(- 3 * f[1] + 4 * f[2] - f[3], 2 * h)
            ELSE IF i = n THEN Div(3 * f[n] - 4 * f[n - 1] + f[n - 2], 2 * h)
            ELSE Div(f[i + 1] - f[i - 1], 2 * h)]

\* Gradient along axis 0 (r) and along axis 1 (xi) of a mesh m[j][i].
GradientR(m, h) == [j \in 1..Len(m) |-> Gradient1(m[j], h)]

GradientXi(m, h) ==
    [j \in 1..Len(m) |->
        [i \in 1..Len(m[j]) |-> Gradient1([jj \in 1..Len(m) |-> m[jj][i]], h)[j]]]

\* m * -1, element by element.
Negated(m) == [j \in 1..Len(m) |-> [i \in 1..Len(m[j]) |-> - m[j][i]]]

\* np.gradient raises ValueError on an axis shorter than edge_order + 1.
GradientDefined == in.n_r >= 3 /\ in.n_xi >= 3

\* Lines 160-171.
DerivedFields(m) ==
    LET cells(j)     == 1..Len(m.psi[j])
        slices       == 1..Len(m.psi)
        dr_psi_mesh  == Negated(GradientR(m.psi, dr))
        dxi_psi_mesh == Negated(GradientXi(m.psi, dxi))
        e_r_mesh     == [j \in slices |-> [i \in cells(j) |->
                            m.b_theta_bar[j][i] + m.b_theta_0[j][i]
                            - dr_psi_mesh[j][i]]]
        r_e_r        == [j \in slices |-> [i \in cells(j) |->
                            Mul(r_arr[i], e_r_mesh[j][i])]]
        grad_r_e_r   == GradientR(r_e_r, dr)
        e_z_p_mesh   == GradientXi(dxi_psi_mesh, dxi)
        n_p          == [j \in slices |-> [i \in cells(j) |->
                            Div(grad_r_e_r[j][i], r_arr[i])
                            - e_z_p_mesh[j][i] - Scale]]
    IN  [n_p |-> n_p,
         dr_psi_mesh |-> dr_psi_mesh,
         dxi_psi_mesh |-> dxi_psi_mesh,
         e_z_p_mesh |-> e_z_p_mesh,
         k_r_mesh |-> GradientR(dr_psi_mesh, dr),
         psi_mesh |-> m.psi,
         xi_arr |-> xi_arr,
         r_arr |-> r_arr]

----------------------------------------------------------------------------
(* calculate_wakefields.                                                   *)

\* The column of lines 93-96.
InitialR == Linspace(Half(dr_p), r_max - Half(dr_p), n_part)

InitialQ == [i \in 1..n_part |-> Mul(dr_p, InitialR[i])]

\* A call of a deposition collaborator or of calculate_fields, as recorded
\* in calls: the function, the step (-1 before the loop) and the column.
Call(f, s, xi_c, r_c, q_c) == [f |-> f, step |-> s, xi |-> xi_c, r |-> r_c, q |-> q_c]

Init ==
    /\ in \in Inputs
    /\ pc = "source"
    /\ step = 0
    /\ xi = xi_max
    /\ r = InitialR
    /\ pr = Zeros(n_part)
    /\ gamma = Ones(n_part)
    /\ q = InitialQ
    /\ rk = <<>>
    /\ fields = [psi |-> <<>>, dr_psi |-> <<>>, dxi_psi |-> <<>>,
                 b_theta_bar |-> <<>>, b_theta_0 |-> <<>>]
    /\ mesh = [psi |-> ZeroMesh, dr_psi |-> ZeroMesh, dxi_psi |-> ZeroMesh,
               b_theta_bar |-> ZeroMesh, b_theta_0 |-> ZeroMesh]
    /\ result = None
    /\ pid = [i \in 1..n_part |-> i]
    /\ exceeded = {}
    /\ pre = [step |-> -1, pushed_r |-> <<>>, pushed_pr |-> <<>>,
              r |-> <<>>, pr |-> <<>>]
    /\ md = [stage |-> 0, r_arg |-> <<>>, pr_arg |-> <<>>, r_after |-> <<>>,
             pr_after |-> <<>>, r_loc |-> <<>>, pr_loc |-> <<>>]
    /\ calls = <<>>
    /\ writes = <<>>

\* get_beam_function reads r_arr[1] and xi_arr[1] (lines 793-794), which
\* raises IndexError on a grid of one cell or of one slice.
BeamFunctionDefined == in.n_r >= 2 /\ in.n_xi >= 2

\* Lines 110-125: the beam source term, and the depositions of the initial
\* column, which are given r_arr and q.
BeamSource ==
    /\ pc = "source"
    /\ IF ~ IsNone(beam) /\ ~ BeamFunctionDefined
       THEN /\ pc' = "IndexError"
            /\ UNCHANGED calls
       ELSE /\ calls' = <<Call("charge_distribution_cyl", -1, xi_max, r_arr, q),
                          Call("deposit_susceptibility_cyl", -1, xi_max, r_arr, q)>>
            /\ pc' = "loop"
    /\ UNCHANGED <<in, step, xi, r, pr, gamma, q, rk, fields, mesh, result,
                   pid, exceeded, pre, md, writes>>

\* for step in np.arange(n_xi): xi = xi_max - dxi * step
LoopHead ==
    /\ pc = "loop"
    /\ IF step < in.n_xi
       THEN /\ xi' = xi_max - dxi * step
            /\ pc' = "rk1"
       ELSE /\ pc' = "post"
            /\ UNCHANGED xi
    /\ rk' = <<>>
    /\ UNCHANGED <<in, step, r, pr, gamma, q, fields, mesh, result, pid,
                   exceeded, pre,
                   md, calls, writes>>

\* The arguments xi, r, pr of the n-th motion_derivatives call of
\* evolve_plasma (lines 217-226).
StageArgs(n) ==
    LET plus(a, k, half) ==
            Array([i \in 1..Len(a) |->
                      a[i] + (IF half THEN Half(k[i]) ELSE k[i])])
    IN  IF n = 1 THEN [xi |-> xi, r |-> r, pr |-> pr]
        ELSE IF n = 4
        THEN [xi |-> xi - dxi, r |-> plus(r, rk[3].dr, FALSE),
              pr |-> plus(pr, rk[3].dpr, FALSE)]
        ELSE [xi |-> xi - Half(dxi), r |-> plus(r, rk[n - 1].dr, TRUE),
              pr |-> plus(pr, rk[n - 1].dpr, TRUE)]

\* A motion_derivatives that reflects in the arrays of its caller.
CallerArraysInPlace(r_arg, pr_arg, loc) == [r |-> loc.r, pr |-> loc.pr]

\* What motion_derivatives leaves in the arrays r, pr its caller passed, when
\* loc are the arrays it computed with: the reflection is made on copies
\* (lines 245-249).
CallerArrays(r_arg, pr_arg, loc) == [r |-> r_arg, pr |-> pr_arg]

\* One motion_derivatives call of evolve_plasma.  Without a beam,
\* beam_source is None and calling it raises TypeError (line 262); a division
\* by zero raises ZeroDivisionError.
MotionDerivatives ==
    /\ pc \in {"rk1", "rk2", "rk3", "rk4"}
    /\ IF IsNone(beam)
       THEN /\ pc' = "TypeError"
            /\ UNCHANGED <<r, pr, rk, md>>
       ELSE \E n \in {Len(rk) + 1} : \E a \in {StageArgs(n)} :
            \E d \in {motion_derivatives(dxi, a.xi, a.r, a.pr, q,
                                         laser_params, beam)} :
            \E after \in {CallerArrays(a.r, a.pr, d)} :
               IF d.raised
               THEN /\ pc' = "ZeroDivisionError"
                    /\ UNCHANGED <<r, pr, rk, md>>
               ELSE /\ rk' = Append(rk, [dr |-> d.dr, dpr |-> d.dpr])
                    /\ md' = [stage |-> n, r_arg |-> a.r, pr_arg |-> a.pr,
                              r_after |-> after.r, pr_after |-> after.pr,
                              r_loc |-> d.r, pr_loc |-> d.pr]
                    /\ r' = IF n = 1 THEN after.r ELSE r
                    /\ pr' = IF n = 1 THEN after.pr ELSE pr
                    /\ pc' = IF n = 4 THEN "update"
                             ELSE IF n = 3 THEN "rk4"
                             ELSE IF n = 2 THEN "rk3" ELSE "rk2"
    /\ UNCHANGED <<in, step, xi, gamma, q, fields, mesh, result, pid,
                   exceeded, pre,
                   calls, writes>>

\* update_particles_rk4, and the return of evolve_plasma.
UpdateParticles ==
    /\ pc = "update"
    /\ \E new \in {update_particles_rk4(r, pr, rk[1].dr, rk[2].dr, rk[3].dr,
                      rk[4].dr, rk[1].dpr, rk[2].dpr, rk[3].dpr, rk[4].dpr)} :
       \E pushed \in {PushParticles(r, pr, rk[1].dr, rk[2].dr, rk[3].dr,
                         rk[4].dr, rk[1].dpr, rk[2].dpr, rk[3].dpr, rk[4].dpr)} :
           /\ r' = new.r
           /\ pr' = new.pr
           /\ pre' = [step |-> step, pushed_r |-> pushed.r,
                      pushed_pr |-> pushed.pr, r |-> new.r, pr |-> new.pr]
           /\ exceeded' = exceeded \cup
                  {pid[i] : i \in {k \in 1..Len(pid) : new.r[k] > r_max + Margin}}
    /\ pc' = "remove"
    /\ UNCHANGED <<in, step, xi, gamma, q, rk, fields, mesh, result, pid, md,
                   calls, writes>>

\* The creation indices ids without those in gone, in order.
RECURSIVE Survivors(_, _, _)
Survivors(ids, gone, k) ==
    IF k > Len(ids) THEN <<>>
    ELSE (IF ids[k] \in gone THEN <<>> ELSE <<ids[k]>>)
         \o Survivors(ids, gone, k + 1)

\* A removal test without the 0.1 margin.
IdxKeepNoMargin(r_c) == {i \in 1..Len(r_c) : r_c[i] <= r_max}

\* idx_keep = np.where(r <= r_max + 0.1)
IdxKeep(r_c) == {i \in 1..Len(r_c) : r_c[i] <= r_max + Margin}

\* A compaction that keeps the leading entries instead of the indexed ones.
CompactLeading(a, keep) == SubSeq(a, 1, Cardinality(keep))

\* a[idx_keep]
Compact(a, keep) == Take(a, keep, 1)

\* A loop without the break on an empty column.
AfterRemovalNoBreak(r_c) == "fields"

\* if r.shape[0] == 0: break
AfterRemoval(r_c) == IF Len(r_c) = 0 THEN "post" ELSE "fields"

\* Lines 135-143: the removal, and the break on an empty column.
RemoveParticles ==
    /\ pc = "remove"
    /\ LET idx_keep == IdxKeep(r)
       IN  /\ r' = Compact(r, idx_keep)
           /\ pr' = Compact(pr, idx_keep)
           /\ gamma' = Compact(gamma, idx_keep)
           /\ q' = Compact(q, idx_keep)
    /\ pid' = Survivors(pid, exceeded, 1)
    /\ pc' = AfterRemoval(r')
    /\ UNCHANGED <<in, step, xi, rk, fields, mesh, result, exceeded, pre, md,
                   calls, writes>>

\* Lines 144-146; a division by zero raises ZeroDivisionError.
CalculateFields ==
    /\ pc = "fields"
    /\ \E f \in {calculate_fields(r_arr, xi, r, pr, q, laser_params, beam)} :
           IF f.raised
           THEN /\ pc' = "ZeroDivisionError"
                /\ UNCHANGED fields
           ELSE /\ fields' = [psi |-> f.psi, dr_psi |-> f.dr_psi,
                              dxi_psi |-> f.dxi_psi,
                              b_theta_bar |-> f.b_theta_bar,
                              b_theta_0 |-> f.b_theta_0]
                /\ pc' = "deposit"
    /\ calls' = Append(calls, Call("calculate_fields", step, xi, r, q))
    /\ UNCHANGED <<in, step, xi, r, pr, gamma, q, rk, mesh, result, pid,
                   exceeded, pre,
                   md, writes>>

\* Lines 148-152.
Deposit ==
    /\ pc = "deposit"
    /\ calls' = calls \o
                <<Call("charge_distribution_cyl", step, xi, r, q),
                  Call("deposit_susceptibility_cyl", step, xi, r, q)>>
    /\ pc' = "store"
    /\ UNCHANGED <<in, step, xi, r, pr, gamma, q, rk, fields, mesh, result,
                   pid, exceeded, pre, md, writes>>

\* The mesh column of i = -1 - step.
SliceOf(s) == in.n_xi - s

\* Lines 154-158, and the end of the loop body.
StoreFields ==
    /\ pc = "store"
    /\ LET i == SliceOf(step)
       IN  /\ mesh' = [psi         |-> [mesh.psi EXCEPT ![i] = fields.psi],
                       dr_psi      |-> [mesh.dr_psi EXCEPT ![i] = fields.dr_psi],
                       dxi_psi     |-> [mesh.dxi_psi EXCEPT ![i] = fields.dxi_psi],
                       b_theta_bar |-> [mesh.b_theta_bar EXCEPT ![i] = fields.b_theta_bar],
                       b_theta_0   |-> [mesh.b_theta_0 EXCEPT ![i] = fields.b_theta_0]]
           /\ writes' = Append(writes, [step |-> step, slice |-> i, xi |-> xi])
    /\ step' = step + 1
    /\ pc' = "loop"
    /\ UNCHANGED <<in, xi, r, pr, gamma, q, rk, fields, result, pid, exceeded, pre, md,
                   calls>>

\* Lines 160-171.
PostProcess ==
    /\ pc = "post"
    /\ IF GradientDefined
       THEN /\ result' = DerivedFields(mesh)
            /\ pc' = "done"
       ELSE /\ pc' = "ValueError"
            /\ UNCHANGED result
    /\ UNCHANGED <<in, step, xi, r, pr, gamma, q, rk, fields, mesh, pid,
                   exceeded, pre, md, calls, writes>>

Next ==
    \/ BeamSource
    \/ LoopHead
    \/ MotionDerivatives
    \/ UpdateParticles
    \/ RemoveParticles
    \/ CalculateFields
    \/ Deposit
    \/ StoreFields
    \/ PostProcess

Spec == Init /\ [][Next]_vars

----------------------------------------------------------------------------
(* Properties of the plasma column.                                        *)

Range(a) == {a[i] : i \in 1..Len(a)}

Within(x) == x <= r_max + Margin

\* The index in pre.r of the i-th particle that evolve_plasma returned
\* within r_max + 0.1.
NthKept(i) ==
    LET keep == {k \in 1..Len(pre.r) : Within(pre.r[k])}
    IN  CHOOSE k \in keep : Cardinality({j \in keep : j <= k}) = i

\* C1: after the removal of a step the column holds only particles with
\* r <= r_max + 0.1: exactly the particles that evolve_plasma never returned
\* beyond that radius, with the radii it returned; every field solve and
\* deposition of the loop sees such a column, and the number of particles
\* never increases from one call to the next.
C1_Removal ==
    /\ pc # "remove" =>
          /\ \A i \in 1..Len(r) : Within(r[i])
          /\ Range(pid) \cap exceeded = {}
          /\ Len(r) = Len(pid)
    /\ pc = "fields" =>
          \A i \in 1..Len(r) : r[i] = pre.r[NthKept(i)]
    /\ \A k \in 1..Len(calls) :
          calls[k].step >= 0 =>
             /\ \A i \in 1..Len(calls[k].r) : Within(calls[k].r[i])
             /\ Len(calls[k].r) <= n_part
             /\ \A l \in 1..(k - 1) :
                   calls[l].step >= 0 => Len(calls[k].r) <= Len(calls[l].r)

\* A step whose removal dropped some particles and kept others.
C1_Witness ==
    /\ pc = "fields"
    /\ pre.step = step
    /\ Len(r) < Len(pre.r)
    /\ \E i \in 1..Len(pre.r) : ~ Within(pre.r[i])

\* r1, pr1 are r0, pr0 with every particle of negative radius mirrored.
Reflected(r0, pr0, r1, pr1) ==
    /\ Len(r1) = Len(r0)
    /\ Len(pr1) = Len(pr0)
    /\ \A i \in 1..Len(r0) :
          IF r0[i] < 0
          THEN r1[i] = - r0[i] /\ pr1[i] = - pr0[i]
          ELSE r1[i] = r0[i] /\ pr1[i] = pr0[i]

\* C4: motion_derivatives computes with, and update_particles_rk4 returns,
\* the arrays in which every particle of radius r < 0 has been replaced by
\* (-r, -pr) and every other particle is unchanged; the column that
\* evolve_plasma returns has r >= 0 for every particle at every step.
C4_Reflection ==
    /\ Reflected(md.r_arg, md.pr_arg, md.r_loc, md.pr_loc)
    /\ Reflected(pre.pushed_r, pre.pushed_pr, pre.r, pre.pr)
    /\ pc = "remove" => r = pre.r /\ pr = pre.pr
    /\ \A i \in 1..Len(r) : r[i] >= 0

\* evolve_plasma has returned a column in which update_particles_rk4
\* mirrored a particle of nonzero momentum, after a motion_derivatives call
\* that received a negative radius.
C4_Witness ==
    /\ pc = "remove"
    /\ \E i \in 1..Len(pre.pushed_r) :
          pre.pushed_r[i] < 0 /\ pre.pushed_pr[i] # 0
    /\ \E i \in 1..Len(md.r_arg) : md.r_arg[i] < 0 /\ md.pr_arg[i] # 0

\* C9: r, pr and q have the same length; the surviving particles keep their
\* creation order, with the radius and momentum evolve_plasma returned for
\* them, and each keeps the charge it was created with.
C9_Column ==
    /\ Len(r) = Len(pr)
    /\ Len(pr) = Len(q)
    /\ pc # "remove" =>
          /\ Len(pid) = Len(q)
          /\ \A i \in 1..Len(pid) : q[i] = InitialQ[pid[i]]
          /\ \A i, j \in 1..Len(pid) : i < j => pid[i] < pid[j]
    /\ pc = "fields" =>
          \A i \in 1..Len(r) :
             r[i] = pre.r[NthKept(i)] /\ pr[i] = pre.pr[NthKept(i)]

\* A removal took a particle that was not the last of the arrays, so the
\* survivors behind it moved to a lower index.
C9_Witness ==
    /\ pc = "fields"
    /\ pre.step = step
    /\ \E k \in 1..Len(pre.r) :
          ~ Within(pre.r[k]) /\ \E j \in (k + 1)..Len(pre.r) : Within(pre.r[j])

----------------------------------------------------------------------------
(* Properties of the xi loop.                                              *)

\* Rounding allowance of a comparison between two computed numbers.
Tol == Real(1, 100)

\* The exceptions that end calculate_wakefields.
Raised == pc \in {"IndexError", "TypeError", "ZeroDivisionError", "ValueError"}

\* The loop has been entered and left.
LoopLeft ==
    pc \in {"post", "done", "TypeError", "ZeroDivisionError", "ValueError"}

\* C2: the loop runs at most n_xi steps and is left either after step
\* n_xi - 1 or at the first step whose column is empty after the removal;
\* when it is left at step s, no slice is written in step s or later and
\* the slices 0 .. n_xi - 1 - s of the five meshes keep their zeros.
C2_Termination ==
    /\ step <= in.n_xi
    /\ Len(writes) = step
    /\ LoopLeft =>
          /\ step = in.n_xi \/ Len(r) = 0
          /\ \A j \in 1..(in.n_xi - step) :
                /\ mesh.psi[j] = Zeros(in.n_r)
                /\ mesh.dr_psi[j] = Zeros(in.n_r)
                /\ mesh.dxi_psi[j] = Zeros(in.n_r)
                /\ mesh.b_theta_bar[j] = Zeros(in.n_r)
                /\ mesh.b_theta_0[j] = Zeros(in.n_r)

\* C3: step s writes slice n_xi - 1 - s (slice n_xi - s when counted from
\* one) and no other, every slice is written at most once, and the
\* coordinate xi_arr of the slice is the xi at which its fields were computed.
C3_SliceIndexing ==
    \A k \in 1..Len(writes) :
       /\ writes[k].step = k - 1
       /\ writes[k].slice = in.n_xi - writes[k].step
       /\ \A l \in 1..Len(writes) : writes[l].slice = writes[k].slice => l = k
       /\ Abs(xi_arr[writes[k].slice] - writes[k].xi) <= Tol

\* C5: with neither a beam nor a laser calculate_wakefields runs to its
\* end without an error, and the psi it returns is -r^2/4 at every radius.
C5_NoDriver ==
    (IsNone(beam) /\ IsNone(laser_params)) =>
        /\ ~ Raised
        /\ pc = "done" =>
              \A j \in 1..in.n_xi : \A i \in 1..in.n_r :
                 Abs(result.psi_mesh[j][i] + Quarter(Sq(r_arr[i]))) <= Tol

----------------------------------------------------------------------------
(* Properties of the field solver.                                         *)

RECURSIVE Total(_, _)
Total(a, k) == IF k > Len(a) THEN 0 ELSE a[k] + Total(a, k + 1)

\* The largest radius of a non-empty column.
MaxR(r_c) == CHOOSE m \in Range(r_c) : \A x \in Range(r_c) : x <= m

\* sum q_i and sum q_i ln(r_i) over the whole column.
SumQ == Total(q, 1)
SumQLn == Total([i \in 1..Len(q) |-> Mul(q[i], Ln(r[i]))], 1)

\* Q ln(x) - sum q_i ln(r_i) - x^2 / 4 with the sums of the whole column.
RawPsi(x) == Mul(SumQ, Ln(x)) - SumQLn - Quarter(Sq(x))

\* The call of calculate_ai_bi that calculate_fields makes, through
\* calculate_b_theta, on the column of the current step.
AiBiInFieldsResult(f, ab) ==
    [raised |-> f.raised \/ ab.raised, psi |-> f.psi, ab |-> ab]

AiBiInFieldsAtParticles(src, f) ==
    AiBiInFieldsResult(f,
        calculate_ai_bi(r, pr, q, Array(GammaInFields(pr, src.a2, f.psi)),
                        f.psi, f.dr_psi, f.dxi_psi, beam_source(beam, r, xi),
                        src.nabla_a))

AiBiInFieldsSources(src) ==
    AiBiInFieldsAtParticles(src,
        calculate_psi_and_derivatives_at_particles(r, pr, q))

AiBiInFields == AiBiInFieldsSources(LaserSource(laser_params, xi, r))

\* No number of the outermost shell is at the limit of the range.
Finite(ab, N) ==
    /\ Abs(ab.K[N]) < MaxFloat
    /\ Abs(ab.T[N]) < MaxFloat
    /\ Abs(ab.a_0) < MaxFloat
    /\ Abs(MulExact(ab.K[N], ab.a_0)) < MaxFloat

\* C6: for a non-empty column on which calculate_ai_bi raises no error and
\* stays within the number range, a_0 = -T_N / K_N for the outermost shell
\* N, so that a_N = K_N a_0 + T_N is zero up to rounding, and the recursion
\* starts from K_0 = 1, U_0 = 0: K_1 = 1 + A_1 r_1 / 2, U_1 = -A_1 r_1^3 / 2.
C6_Recursion ==
    pc = "fields" =>
        \A s \in {AiBiInFields} : \A ab \in {s.ab} :
        \A N \in {ab.idx[Len(r)]} : \A i1 \in {ab.idx[1]} :
        \A A1 \in {Mul(q[i1], Div(Scale, Mul(r[i1], Scale + s.psi[i1])))} :
            (~ s.raised /\ Finite(ab, N)) =>
               /\ ab.a_0 = Div(- ab.T[N], ab.K[N])
               /\ Abs(ab.a_i[N]) <= Abs(ab.K[N]) \div Scale + 2
               /\ ab.K[i1] = Scale + Half(Mul(A1, r[i1]))
               /\ ab.U[i1] = - Half(Mul(A1, Mul(Sq(r[i1]), r[i1])))

\* A field solve on a column of several particles, some of which have
\* crossed, with T_N away from zero.
C6_Witness ==
    /\ pc = "fields"
    /\ Len(r) >= 3
    /\ r[Len(r)] < MaxR(r)
    /\ \E s \in {AiBiInFields} : \E N \in {s.ab.idx[Len(r)]} :
           /\ ~ s.raised
           /\ Finite(s.ab, N)
           /\ Abs(s.ab.T[N]) > Tol

C10_CalibrationAtOutermost ==
    pc = "fields" =>
        Abs(PsiCalibration(r, SumQ, SumQLn) - RawPsi(MaxR(r))) <= Tol

----------------------------------------------------------------------------
(* Properties of the two callers of the field solver and of the derived    *)
(* fields.                                                                 *)

\* The gamma that calculate_derivatives and calculate_fields would each hand
\* to the b_theta recursion on the column of the current step.
GammaOnBothPaths ==
    LET src == LaserSource(laser_params, xi, r)
        f   == calculate_psi_and_derivatives_at_particles(r, pr, q)
    IN  [particle |-> Array(GammaAtParticles(pr, src.a2, f.psi)),
         probe    |-> Array(GammaInFields(pr, src.a2, f.psi)),
         a2       |-> src.a2,
         raised   |-> f.raised \/ \E i \in 1..Len(r) : Scale + f.psi[i] = 0]

\* C11: for the same r, pr, q and a2 the gamma of calculate_derivatives and
\* the gamma of calculate_fields are the same number,
\* (1 + pr^2 + a2 + (1 + psi)^2) / (2 (1 + psi)), for every particle.
C11_SameGamma ==
    pc = "fields" =>
        \A g \in {GammaOnBothPaths} :
            ~ g.raised =>
               \A i \in 1..Len(r) : Abs(g.probe[i] - g.particle[i]) <= Tol

\* The mesh of the cells of m1 and m2 agree up to rounding.
SameMesh(m1, m2) ==
    /\ Len(m1) = Len(m2)
    /\ \A j \in 1..Len(m1) :
          /\ Len(m1[j]) = Len(m2[j])
          /\ \A i \in 1..Len(m1[j]) : Abs(m1[j][i] - m2[j][i]) <= Tol

\* C12: the dr_psi and dxi_psi meshes that calculate_wakefields returns are
\* the meshes assembled slice by slice in the loop.
C12_MeshesKept ==
    pc = "done" =>
        /\ SameMesh(result.dr_psi_mesh, mesh.dr_psi)
        /\ SameMesh(result.dxi_psi_mesh, mesh.dxi_psi)

\* E_r = b_theta_bar + b_theta_0 - d(psi)/dr, with d(psi)/dr the centered
\* finite difference of the assembled psi mesh along r.
RadialField ==
    LET dpsi == GradientR(mesh.psi, dr)
    IN  [j \in 1..Len(mesh.psi) |-> [i \in 1..Len(mesh.psi[j]) |->
            mesh.b_theta_bar[j][i] + mesh.b_theta_0[j][i] - dpsi[j][i]]]

\* (1/r) d(r E_r)/dr - d(dxi_psi)/dxi - 1 with E_r of RadialField and the
\* d(dxi_psi)/dxi that calculate_wakefields returns.
DensityOfRadialField ==
    LET r_e_r == [j \in 1..Len(mesh.psi) |-> [i \in 1..Len(mesh.psi[j]) |->
                     Mul(r_arr[i], RadialField[j][i])]]
        grad  == GradientR(r_e_r, dr)
    IN  [j \in 1..Len(mesh.psi) |-> [i \in 1..Len(mesh.psi[j]) |->
            Div(grad[j][i], r_arr[i]) - result.e_z_p_mesh[j][i] - Scale]]

\* C13: the density perturbation that calculate_wakefields returns is
\* (1/r) d(r E_r)/dr - d(dxi_psi)/dxi - 1 with
\* E_r = b_theta_bar + b_theta_0 - d(psi)/dr, d(psi)/dr being the centered
\* finite difference of the assembled psi mesh along r, sign included.
C13_RadialField ==
    pc = "done" => SameMesh(result.n_p, DensityOfRadialField)

----------------------------------------------------------------------------
(* Properties of the Runge-Kutta step.                                     *)

\* k1 + 2 k2 + 2 k3 + k4 of the four stages in rk.
StageSum(k1, k2, k3, k4) ==
    [i \in 1..Len(k1) |-> k1[i] + 2 * (k2[i] + k3[i]) + k4[i]]

\* b is a plus s / 6, entry by entry, up to the rounding of the division.
Combined(a, s, b) ==
    /\ Len(b) = Len(a)
    /\ \A i \in 1..Len(a) : Abs(6 * (b[i] - a[i]) - s[i]) <= 6

\* C14: a motion_derivatives call leaves the arrays it was passed as they
\* were, so r and pr of the column do not change during the four stage
\* evaluations of evolve_plasma; update_particles_rk4 then pushes them by
\* (k1 + 2 k2 + 2 k3 + k4) / 6.
C14_CallerArraysKept ==
    [][/\ pc \in {"rk1", "rk2", "rk3", "rk4"} =>
             /\ r' = r
             /\ pr' = pr
             /\ md'.r_after = md'.r_arg
             /\ md'.pr_after = md'.pr_arg
       /\ pc = "update" =>
             /\ Combined(r, StageSum(rk[1].dr, rk[2].dr, rk[3].dr, rk[4].dr),
                         pre'.pushed_r)
             /\ Combined(pr, StageSum(rk[1].dpr, rk[2].dpr, rk[3].dpr,
                                      rk[4].dpr),
                         pre'.pushed_pr)]_vars

\* The four stages are done, and the last motion_derivatives call was
\* passed a negative radius, which it mirrored for its own computation and
\* left negative in the array of its caller.
C14_Witness ==
    /\ pc = "update"
    /\ md.stage = 4
    /\ \E i \in 1..Len(md.r_arg) :
          /\ md.r_arg[i] < 0
          /\ md.r_after[i] = md.r_arg[i]
          /\ md.r_loc[i] = - md.r_arg[i]
          /\ rk[4].dr[i] # 0

----------------------------------------------------------------------------
(* Properties of the phases of a step.                                     *)

\* The positions in calls of the calls of f made in step s.
CallsOf(f, s) == {k \in 1..Len(calls) : calls[k].f = f /\ calls[k].step = s}

\* The steps that have been entered, and those that have stored a slice.
Entered == {s \in 0..(in.n_xi - 1) : s < step \/ (s = step /\ pc # "loop")}

\* C15: in every step the integrator runs before the removal, the removal
\* before the field solve, the field solve before the two depositions and
\* these before the store; a step makes each of the three calls at most
\* once and a step that stored its slice made each exactly once, all three
\* with the column left by the removal of that step; no call of the loop
\* is given an empty column.
C15_StepPhases ==
    /\ \A s \in 0..(in.n_xi - 1) :
          \A f \in {"calculate_fields", "charge_distribution_cyl",
                    "deposit_susceptibility_cyl"} :
             /\ Cardinality(CallsOf(f, s)) <= 1
             /\ s < Len(writes) => Cardinality(CallsOf(f, s)) = 1
             /\ s \notin Entered => CallsOf(f, s) = {}
    /\ \A k \in 1..Len(calls) :
          calls[k].step >= 0 =>
             /\ Len(calls[k].r) > 0
             /\ calls[k].f = "charge_distribution_cyl" =>
                   /\ calls[k - 1].f = "calculate_fields"
                   /\ calls[k - 1].step = calls[k].step
                   /\ calls[k - 1].r = calls[k].r
                   /\ calls[k - 1].q = calls[k].q
             /\ calls[k].f = "deposit_susceptibility_cyl" =>
                   /\ calls[k - 1].f = "charge_distribution_cyl"
                   /\ calls[k - 1].step = calls[k].step
                   /\ calls[k - 1].r = calls[k].r
                   /\ calls[k - 1].q = calls[k].q
             /\ calls[k].f = "calculate_fields" =>
                   /\ calls[k - 1].f = "deposit_susceptibility_cyl"
                   /\ calls[k - 1].step < calls[k].step
                   /\ Len(writes) >= calls[k].step
    /\ pc \in {"fields", "deposit", "store"} =>
          /\ Len(r) > 0
          /\ pre.step = step
          /\ \A i \in 1..Len(r) : r[i] = pre.r[NthKept(i)]
          /\ Len(writes) = step
    /\ pc \in {"deposit", "store"} =>
          /\ CallsOf("calculate_fields", step) # {}
          /\ calls[Len(calls)].step = step
          /\ calls[Len(calls)].r = r
          /\ calls[Len(calls)].q = q
    /\ pc = "store" => CallsOf("deposit_susceptibility_cyl", step) # {}
    /\ pc = "remove" => pre.step = step /\ CallsOf("calculate_fields", step) = {}

\* The loop has been left on an empty column after steps that made their
\* three calls and stored their slices.
C15_Witness ==
    /\ pc = "post"
    /\ Len(r) = 0
    /\ step >= 1
    /\ Len(writes) = step
    /\ Len(calls) = 2 + 3 * step

----------------------------------------------------------------------------
(* calculate_fields on its own: the field solve of the first step on a     *)
(* column drawn from a set of radii that holds the probe radii.            *)

\* The radii of the drawn columns: the probe radii and two radii between.
ProbeRadii == Range(r_arr) \cup {Real(7, 10), Real(12, 10)}

ProbeInputs ==
    {i \in Inputs : /\ i.n_r = MaxNr
                    /\ i.n_xi = MaxNXi
                    /\ i.ppc = 1
                    /\ i.beam_part = Beam(Real(30, 1))
                    /\ IsNone(i.laser)}

\* The columns: up to MaxNr particles in any order, with an inward or an
\* outward momentum and the charge of a particle created at that radius.
ProbeColumns == UNION {[1..n -> ProbeRadii] : n \in 1..MaxNr}

ProbeInit ==
    /\ in \in ProbeInputs
    /\ pc = "fields"
    /\ step = 0
    /\ xi = xi_max
    /\ r \in ProbeColumns
    /\ pr = [i \in 1..Len(r) |-> r[i] - Scale]
    /\ gamma = Ones(Len(r))
    /\ q = [i \in 1..Len(r) |-> Mul(dr_p, r[i])]
    /\ rk = <<>>
    /\ fields = [psi |-> <<>>, dr_psi |-> <<>>, dxi_psi |-> <<>>,
                 b_theta_bar |-> <<>>, b_theta_0 |-> <<>>]
    /\ mesh = [psi |-> ZeroMesh, dr_psi |-> ZeroMesh, dxi_psi |-> ZeroMesh,
               b_theta_bar |-> ZeroMesh, b_theta_0 |-> ZeroMesh]
    /\ result = None
    /\ pid = [i \in 1..Len(r) |-> i]
    /\ exceeded = {}
    /\ pre = [step |-> 0, pushed_r |-> r, pushed_pr |-> pr, r |-> r, pr |-> pr]
    /\ md = [stage |-> 0, r_arg |-> <<>>, pr_arg |-> <<>>, r_after |-> <<>>,
             pr_after |-> <<>>, r_loc |-> <<>>, pr_loc |-> <<>>]
    /\ calls = <<>>
    /\ writes = <<>>

ProbeNext == CalculateFields

SpecProbe == ProbeInit /\ [][ProbeNext]_vars

----------------------------------------------------------------------------
(* Properties of the probe mode.                                           *)

\* The particles strictly inside the radius x.
Below(x) == {i \in 1..Len(r) : r[i] < x}

\* sum q_i and sum q_i ln(r_i) over the particles in S.
SumQOver(S) == Total([i \in 1..Len(q) |-> IF i \in S THEN q[i] ELSE 0], 1)

SumQLnOver(S) ==
    Total([i \in 1..Len(q) |-> IF i \in S THEN Mul(q[i], Ln(r[i])) ELSE 0], 1)

\* The fields at the probe radius x from the shell of the particles
\* strictly inside x: the n-th of the sorted order idx of ab when n
\* particles are inside, the axis solution when none is.
ShellFields(x, ab) ==
    LET n == Cardinality(Below(x))
        p == ab.idx[n]
    IN  [b_theta_bar |-> IF n = 0 THEN Mul(ab.a_0, x)
                         ELSE Mul(ab.a_i[p], x) + Div(ab.b_i[p], x),
         psi         |-> IF n = 0 THEN - Quarter(Sq(x))
                         ELSE Mul(SumQOver(Below(x)), Ln(x))
                              - SumQLnOver(Below(x)) - Quarter(Sq(x)),
         dr_psi      |-> IF n = 0 THEN - Half(x)
                         ELSE Div(SumQOver(Below(x)), x) - Half(x)]

\* C16: at every probe radius r_j the fields calculate_fields returns are
\* those of the last shell, in ascending r, of the particles with
\* r_i < r_j, a particle at r_i = r_j not being inside: b_theta_bar is
\* a_i r_j + b_i / r_j of that shell, psi before calibration and dr_psi
\* are formed from the sums over the particles inside; with no particle
\* inside, b_theta_bar = a_0 r_j, psi = -r_j^2 / 4 and dr_psi = -r_j / 2;
\* with every particle inside, the shell is the outermost one.
C16_ProbeShell ==
    pc = "deposit" =>
        \A s \in {AiBiInFields} :
        \A cal \in {PsiCalibration(r, SumQ, SumQLn)} :
        \A j \in 1..Len(r_arr) :
        \A sh \in {ShellFields(r_arr[j], s.ab)} :
            /\ Abs(fields.b_theta_bar[j] - sh.b_theta_bar) <= 2
            /\ Abs(fields.psi[j] + cal - sh.psi) <= 2
            /\ Abs(fields.dr_psi[j] - sh.dr_psi) <= 2
            /\ Cardinality(Below(r_arr[j])) = Len(r) =>
                  Abs(fields.b_theta_bar[j]
                      - (Mul(s.ab.a_i[s.ab.idx[Len(r)]], r_arr[j])
                         + Div(s.ab.b_i[s.ab.idx[Len(r)]], r_arr[j]))) <= 2

\* Fields on a grid with a probe inside the innermost particle, a probe
\* between two shells of a crossed column, at the radius of a particle,
\* and a probe beyond every particle, the shells carrying a field that
\* differs from the axis solution.
C16_Witness ==
    /\ pc = "deposit"
    /\ r[Len(r)] < MaxR(r)
    /\ \E j \in 1..Len(r_arr) : \E i \in 1..Len(r) :
          /\ r[i] = r_arr[j]
          /\ Below(r_arr[j]) # {}
          /\ Abs(q[i]) > Tol
    /\ \E j \in 1..Len(r_arr) : Below(r_arr[j]) = {}
    /\ \E j \in 1..Len(r_arr) : Cardinality(Below(r_arr[j])) = Len(r)
    /\ \E j \in 1..Len(r_arr) :
          /\ Below(r_arr[j]) # {}
          /\ Cardinality(Below(r_arr[j])) < Len(r)
          /\ \A s \in {AiBiInFields} :
                Abs(fields.b_theta_bar[j] - Mul(s.ab.a_0, r_arr[j])) > Tol

=============================================================================
